---- MODULE Spec2Model ----
(***************************************************************************)
(* Model of the Learnforge client's connection and session layer.          *)
(*                                                                         *)
(*   Spec         the useMissionAllyWebSocket hook                         *)
(*                (src/hooks/useMissionAllyWebSocket.ts)                   *)
(*   SpecSend     the hook of a signed-in user, with sendMessage()         *)
(*   SpecHistory  the hook of a signed-in user, with the number of         *)
(*                automatic connect() calls since the last open event      *)
(*   SpecApi      ApiClient.makeRequest, cookie and token variants         *)
(*                (src/utils/api.ts, src/unnamed/part_003)                 *)
(***************************************************************************)
EXTENDS Integers, Sequences, FiniteSets, TLC

\* ------------------------------------------------------------------ bounds
MaxSockets == 2      \* WebSocket objects the hook can still reach at one time
MaxPending == 2      \* connect() calls suspended at getIdToken() at one time
MaxTokenLen == 5     \* characters of a credential the supplier returns
MaxAuthOps == 2      \* requests of the AuthProvider in flight at one time
MaxSignOuts == 2     \* pending firebaseSignOut() calls told apart; more count as this many
MaxTime == 4         \* milliseconds the clock of the RateLimiter runs past Epoch
MaxWindow == 3       \* largest windowMs of the RateLimiter
MaxAttempts == 2     \* largest maxAttempts of the RateLimiter
MaxPieces == 2       \* pieces of a chat input
RateHorizon == 20000 \* milliseconds the clock runs past Epoch when the sends are counted
MaxSends == 2        \* sends of a chat that reach the rate limiter or the list when the inputs are varied
MaxMessages == 3     \* messages of a chat's list when the frames are varied
MaxSanitize == 3     \* pieces of a string given to sanitizeInput alone

Missions == {"A", "B"}
Texts    == {"t1", "t2"}

\* --------------------------------------------------------- program constants
MAX_RECONNECT_ATTEMPTS == 3

NORMAL_CLOSURE == 1000     \* event.code !== 1000
AUTH_REJECTED  == 1008     \* event.code === 1008
NO_STATUS      == 1005     \* close() without a code, echoed by the server
ABNORMAL       == 1006     \* connection lost / handshake failed

VARIABLES
  \* ---- the hook's environment
  phase,                 \* "init" (rendered, effect not run) | "mounted" | "unmounted"
  missionId,             \* the missionId prop of the latest render
  cleanupFor,            \* mission captured by the registered effect cleanup, or "null"
  \* ---- the hook's refs and state
  wsRef,                 \* index into sockets, 0 = null
  reconnectAttemptsRef,
  reconnectTimeoutRef,   \* 0 = null; s = the pending timer set by the onclose of socket s;
                         \* DEAD = the id of a timer that has fired or was cleared
  pingIntervalRef,       \* 0 = null; s = the running interval set by the onopen of socket s;
                         \* DEAD = the id of an interval that was cleared
  isConnectingRef,
  hasConnectedRef,
  currentMissionIdRef,   \* a mission or "null"
  isConnected,
  isTyping,
  \* ---- what the hook created
  sockets,               \* slot -> WebSocket object (with the timer and the interval its
                         \* handlers set); see Normalize
  pendingTokens,         \* per mission: connect() calls awaiting user.getIdToken()
  autoConnects,          \* history (recorded under SpecHistory only): reconnect-timer
                         \* callbacks run since the last open event, counted up to
                         \* MAX_RECONNECT_ATTEMPTS + 1
  \* ---- observation of the last step
  lastOp,                \* the operation of the last step
  notice,                \* the showError() notice of the last step, "none" if it showed none
  frame,                 \* the user_message text the last step transmitted, "none" if none
  \* ---- ApiClient.makeRequest
  api,
  \* ---- AuthProvider
  authp,
  \* ---- the chat input: RateLimiter, PolarisChat, MissionViewPage
  limiter,               \* the global rateLimiter and the clock
  chat,                  \* PolarisChat
  page,                  \* MissionViewPage
  outbound               \* the last send of either chat: its input and the frame sent

hookVars == <<phase, missionId, cleanupFor, wsRef, reconnectAttemptsRef,
              reconnectTimeoutRef, pingIntervalRef, isConnectingRef, hasConnectedRef,
              currentMissionIdRef, isConnected, isTyping, sockets, pendingTokens,
              lastOp, notice, frame>>
apiVars == <<api>>
vars == <<hookVars, autoConnects, apiVars, authp, limiter, chat, page, outbound>>
\* what a step of one component leaves alone
nonHookVars == <<apiVars, authp, limiter, chat, page, outbound>>
nonApiVars == <<hookVars, autoConnects, authp, limiter, chat, page, outbound>>
nonAuthVars == <<hookVars, autoConnects, apiVars, limiter, chat, page, outbound>>
nonChatVars == <<hookVars, autoConnects, apiVars, authp>>


\* ================================================================ the hook
SocketIds == 1..MaxSockets
DEAD == -1
FreeSlot ==
  [ used |-> FALSE, mission |-> "null", readyState |-> "CLOSED", opened |-> FALSE,
    tornDown |-> FALSE, timer |-> FALSE, ping |-> FALSE ]
Live(s) == sockets[s].used /\ sockets[s].readyState \in {"CONNECTING", "OPEN"}

\* What the last step was: the operation; the close code (close events); the
\* text (sendMessage); the mission of the closure that ran (the missionId prop
\* for a render's own handlers, the socket's mission for its handlers and its
\* timer); whether auth.currentUser was non-null (reconnect(); TRUE otherwise).
Op(name, code, text, m, u) ==
  [op |-> name, code |-> code, text |-> text, mission |-> m, signedIn |-> u]

\* The refs and state a handler reads and writes, as one value; a handler is
\* an operator from this record to this record.
Cur ==
  [ wsRef |-> wsRef, attempts |-> reconnectAttemptsRef, timeoutRef |-> reconnectTimeoutRef,
    pingRef |-> pingIntervalRef, isConnecting |-> isConnectingRef,
    hasConnected |-> hasConnectedRef, cur |-> currentMissionIdRef,
    isConnected |-> isConnected, isTyping |-> isTyping, socks |-> sockets,
    pending |-> pendingTokens, notice |-> "none", frame |-> "none" ]

SumOver(f, S) ==
  LET RECURSIVE Sum(_)
      Sum(T) == IF T = {} THEN 0 ELSE LET x == CHOOSE y \in T : TRUE IN f[x] + Sum(T \ {x})
  IN  Sum(S)
PendingTotal(r) == SumOver(r.pending, Missions)

\* ---- representation of the socket table
\* A CLOSED socket with no pending timer and no running interval that is not
\* wsRef.current can no longer be observed by the hook: its slot is freed. A
\* ref that holds the id of a timer or interval that is gone holds DEAD. The
\* used slots are kept in a fixed order (the table is a set of objects, the
\* slot numbers carry no meaning).
Bit(b) == IF b THEN 1 ELSE 0
StateNum(st) == CASE st = "CONNECTING" -> 0 [] st = "OPEN" -> 1 [] st = "CLOSING" -> 2 [] OTHER -> 3

\* Slot s of r with what refers to it.
Item(r, s) ==
  LET k == r.socks[s]
  IN  IF k.used /\ (k.readyState # "CLOSED" \/ k.timer \/ k.ping \/ r.wsRef = s)
      THEN [ sock |-> k, w |-> r.wsRef = s, t |-> (r.timeoutRef = s /\ k.timer),
             p |-> (r.pingRef = s /\ k.ping),
             key |-> 1 + Bit(r.pingRef = s) + 2 * Bit(r.timeoutRef = s) + 4 * Bit(r.wsRef = s)
                       + 8 * Bit(k.ping) + 16 * Bit(k.timer) + 32 * Bit(k.tornDown)
                       + 64 * Bit(k.opened) + 128 * StateNum(k.readyState)
                       + 512 * Bit(k.mission = "A") ]
      ELSE [ sock |-> FreeSlot, w |-> FALSE, t |-> FALSE, p |-> FALSE, key |-> 0 ]

RECURSIVE Insert(_, _)
Insert(d, items) ==
  IF items = <<>> THEN <<d>>
  ELSE IF d.key >= Head(items).key THEN <<d>> \o items
       ELSE <<Head(items)>> \o Insert(d, Tail(items))

RECURSIVE Items(_, _)
Items(r, n) == IF n = 0 THEN <<>> ELSE Insert(Item(r, n), Items(r, n - 1))

RECURSIVE EmptyTable(_)
EmptyTable(n) == IF n = 0 THEN <<>> ELSE <<FreeSlot>> \o EmptyTable(n - 1)

RECURSIVE Socks(_)
Socks(items) == IF items = <<>> THEN <<>> ELSE <<Head(items).sock>> \o Socks(Tail(items))

RECURSIVE Find(_, _, _)
Find(items, flag, i) ==
  IF i > Len(items) THEN 0
  ELSE IF items[i][flag] THEN i ELSE Find(items, flag, i + 1)

RefTo(items, flag, ref) ==
  IF ref <= 0 THEN ref
  ELSE IF Find(items, flag, 1) = 0 THEN DEAD ELSE Find(items, flag, 1)

\* The handler's result r0 in this representation.
Normalize(r0) ==
  CHOOSE out \in { [r0 EXCEPT !.socks = Socks(items),
                              !.wsRef = Find(items, "w", 1),
                              !.timeoutRef = RefTo(items, "t", @),
                              !.pingRef = RefTo(items, "p", @)] :
                   items \in {Items(r0, MaxSockets)} } : TRUE

Commit(r0, op) ==
  \E r \in {Normalize(r0)} :
    /\ PendingTotal(r) <= MaxPending
    /\ wsRef' = r.wsRef
    /\ reconnectAttemptsRef' = r.attempts
    /\ reconnectTimeoutRef' = r.timeoutRef
    /\ pingIntervalRef' = r.pingRef
    /\ isConnectingRef' = r.isConnecting
    /\ hasConnectedRef' = r.hasConnected
    /\ currentMissionIdRef' = r.cur
    /\ isConnected' = r.isConnected
    /\ isTyping' = r.isTyping
    /\ sockets' = r.socks
    /\ pendingTokens' = r.pending
    /\ notice' = r.notice
    /\ frame' = r.frame
    /\ lastOp' = op

\* ---- the handlers
\* WebSocket.close() without arguments: a live socket starts closing, its close
\* event comes later; on a closing or closed socket it does nothing.
SocketClose(sock, teardown) ==
  IF sock.readyState \in {"CONNECTING", "OPEN"}
  THEN [sock EXCEPT !.readyState = "CLOSING", !.tornDown = teardown]
  ELSE sock

\* wsRef.current.close() guarded by `if (wsRef.current)`
CloseCurrent(r, teardown) ==
  IF r.wsRef # 0 THEN [r EXCEPT !.socks[r.wsRef] = SocketClose(@, teardown)] ELSE r

ReadyState(r) == IF r.wsRef = 0 THEN "none" ELSE r.socks[r.wsRef].readyState

\* clearTimeout(id) / clearInterval(id)
ClearTimeout(r, id) == IF id > 0 THEN [r EXCEPT !.socks[id].timer = FALSE] ELSE r
ClearInterval(r, id) == IF id > 0 THEN [r EXCEPT !.socks[id].ping = FALSE] ELSE r

\* connect(), up to its first suspension (await user.getIdToken()), for the
\* closure that captured missionId = m; u: auth.currentUser is non-null when
\* connect() reads it.
ConnectGuarded(m, r) ==
  \/ /\ r.cur = m
     /\ (ReadyState(r) = "OPEN" \/ r.isConnecting)
  \/ /\ r.cur = m
     /\ r.hasConnected /\ ReadyState(r) = "CONNECTING"

ConnectMissionChanged(m, r) ==
  IF r.cur # "null" /\ r.cur # m
  THEN [[CloseCurrent(r, TRUE) EXCEPT !.wsRef = 0]
          EXCEPT !.hasConnected = FALSE, !.isConnecting = FALSE]
  ELSE r

Connect(m, u, r) ==
  IF ConnectGuarded(m, r) THEN r
  ELSE LET r1 == [ConnectMissionChanged(m, r) EXCEPT !.cur = m, !.isConnecting = TRUE]
       IN  IF ~u
           THEN [r1 EXCEPT !.notice = "sign_in"]
           ELSE [r1 EXCEPT !.pending[m] = @ + 1]

\* The effect cleanup registered by the effect that ran for mission c.
CleanupApplies(c, r) == r.cur # c

Cleanup(c, r) ==
  IF CleanupApplies(c, r)
  THEN LET r1 == [r EXCEPT !.hasConnected = FALSE, !.isConnecting = FALSE]
           r2 == IF r1.timeoutRef # 0 THEN ClearTimeout(r1, r1.timeoutRef) ELSE r1
           r3 == IF r2.pingRef # 0 THEN ClearInterval(r2, r2.pingRef) ELSE r2
       IN  [CloseCurrent(r3, TRUE) EXCEPT !.wsRef = 0]
  ELSE r

RunCleanup(r) == IF cleanupFor = "null" THEN r ELSE Cleanup(cleanupFor, r)

\* The body of the effect for mission m; it returns a cleanup only when it
\* did not take the early return.
EffectSkips(m, r) == r.cur = m /\ r.hasConnected
Effect(m, u, r) == IF EffectSkips(m, r) THEN r ELSE Connect(m, u, r)

\* ws.onopen of socket s
OnOpen(s, r) ==
  [r EXCEPT !.isConnected = TRUE, !.isConnecting = FALSE, !.hasConnected = TRUE,
            !.attempts = 0, !.socks[s].ping = TRUE, !.pingRef = s]

\* ws.onerror
OnError(r) == [r EXCEPT !.isConnected = FALSE, !.isConnecting = FALSE]

\* The reconnect decision with `<=` for `<` in its first test.
OnCloseReconnectAtCeiling(s, code, r) ==
  IF code # NORMAL_CLOSURE /\ r.attempts <= MAX_RECONNECT_ATTEMPTS
  THEN LET r1 == [r EXCEPT !.attempts = @ + 1]
       IN  IF code = AUTH_REJECTED
           THEN [r1 EXCEPT !.notice = "auth_failed"]
           ELSE [r1 EXCEPT !.socks[s].timer = TRUE, !.timeoutRef = s]
  ELSE IF r.attempts >= MAX_RECONNECT_ATTEMPTS
       THEN [r EXCEPT !.notice = "connection_lost"]
       ELSE r

\* The reconnect decision without its test for code 1008.
OnCloseReconnectRetryingAuth(s, code, r) ==
  IF code # NORMAL_CLOSURE /\ r.attempts < MAX_RECONNECT_ATTEMPTS
  THEN [r EXCEPT !.attempts = @ + 1, !.socks[s].timer = TRUE, !.timeoutRef = s]
  ELSE IF r.attempts >= MAX_RECONNECT_ATTEMPTS
       THEN [r EXCEPT !.notice = "connection_lost"]
       ELSE r

\* ws.onclose of socket s with event.code = code: the reconnect decision
OnCloseReconnect(s, code, r) ==
  IF code # NORMAL_CLOSURE /\ r.attempts < MAX_RECONNECT_ATTEMPTS
  THEN LET r1 == [r EXCEPT !.attempts = @ + 1]
       IN  IF code = AUTH_REJECTED
           THEN [r1 EXCEPT !.notice = "auth_failed"]
           ELSE [r1 EXCEPT !.socks[s].timer = TRUE, !.timeoutRef = s]
  ELSE IF r.attempts >= MAX_RECONNECT_ATTEMPTS
       THEN [r EXCEPT !.notice = "connection_lost"]
       ELSE r

OnClose(s, code, r) ==
  LET r1 == [r EXCEPT !.isConnected = FALSE, !.isTyping = FALSE, !.isConnecting = FALSE]
      r2 == IF r1.pingRef # 0
            THEN [ClearInterval(r1, r1.pingRef) EXCEPT !.pingRef = 0]
            ELSE r1
  IN  OnCloseReconnect(s, code, r2)

\* The callback of the reconnect timer set by the onclose of socket s; it
\* calls the connect() of the closure that created s.
OnReconnectTimer(s, u, r) ==
  IF r.attempts <= MAX_RECONNECT_ATTEMPTS
  THEN Connect(r.socks[s].mission, u, r)
  ELSE [r EXCEPT !.notice = "failed_multiple"]

\* sendMessage(text) testing only that there is a current socket.
SendMessageOpUnchecked(text, r) ==
  IF r.wsRef # 0
  THEN [r EXCEPT !.frame = text]
  ELSE [r EXCEPT !.notice = "not_connected"]

\* sendMessage(text)
SendMessageOp(text, r) ==
  IF r.wsRef # 0 /\ r.socks[r.wsRef].readyState = "OPEN"
  THEN [r EXCEPT !.frame = text]
  ELSE [r EXCEPT !.notice = "not_connected"]

\* reconnect()
ReconnectOp(u, r) ==
  Connect(missionId, u, CloseCurrent([r EXCEPT !.attempts = 0], FALSE))

\* ws.onmessage: the frames that change the hook's own state
OnMessage(type, r) ==
  CASE type = "agent_processing_start" -> [r EXCEPT !.isTyping = TRUE]
    [] type = "agent_processing_end"   -> [r EXCEPT !.isTyping = FALSE]
    [] OTHER -> r

\* The codes a close event can carry, by how the socket came to close: a
\* handshake that fails, or a close() before the socket opened, gives 1006; the
\* server closes an open socket with a code of its choice or the connection is
\* lost; close() without a code on an open socket sends a Close frame without
\* a status, and the event carries what the server answers (none: 1005).
CloseCodes(sock) ==
  CASE ~sock.used                     -> {}
    [] sock.readyState = "CONNECTING" -> {ABNORMAL}
    [] sock.readyState = "OPEN"       -> {NORMAL_CLOSURE, AUTH_REJECTED, ABNORMAL}
    [] sock.readyState = "CLOSING"    ->
         IF sock.opened THEN {NORMAL_CLOSURE, NO_STATUS} ELSE {ABNORMAL}
    [] OTHER -> {}

NewSocket(m) ==
  [ used |-> TRUE, mission |-> m, readyState |-> "CONNECTING", opened |-> FALSE,
    tornDown |-> FALSE, timer |-> FALSE, ping |-> FALSE ]

\* A socket that has closed keeps its mission (its timer's closure), its timer
\* and its interval.
ClosedSocket(sock) ==
  [sock EXCEPT !.readyState = "CLOSED", !.opened = FALSE, !.tornDown = FALSE]

FreeSlots == {s \in SocketIds : ~sockets[s].used}
NextSlot == CHOOSE s \in FreeSlots : \A u \in FreeSlots : s <= u

\* ------------------------------------------------------------------ actions
HookInit ==
  /\ phase = "init"
  /\ missionId \in Missions
  /\ cleanupFor = "null"
  /\ wsRef = 0
  /\ reconnectAttemptsRef = 0
  /\ reconnectTimeoutRef = 0
  /\ pingIntervalRef = 0
  /\ isConnectingRef = FALSE
  /\ hasConnectedRef = FALSE
  /\ currentMissionIdRef = "null"
  /\ isConnected = FALSE
  /\ isTyping = FALSE
  /\ sockets = EmptyTable(MaxSockets)
  /\ pendingTokens = [m \in Missions |-> 0]
  /\ autoConnects = 0
  /\ lastOp = Op("init", 0, "", "null", TRUE)
  /\ notice = "none"
  /\ frame = "none"

\* First run of the effect after the first render.
Mount(u) ==
  /\ phase = "init"
  /\ phase' = "mounted"
  /\ \E c \in {Cur} :
       /\ cleanupFor' = IF EffectSkips(missionId, c) THEN "null" ELSE missionId
       /\ Commit(Effect(missionId, u, c), Op("mount", 0, "", missionId, TRUE))
  /\ UNCHANGED <<missionId, nonHookVars>>

\* The missionId prop changes: the previous effect's cleanup runs, then the
\* effect runs for the new mission.
MissionChange(m, u) ==
  /\ phase = "mounted"
  /\ m # missionId
  /\ missionId' = m
  /\ \E r \in {RunCleanup(Cur)} :
       /\ cleanupFor' = IF EffectSkips(m, r) THEN "null" ELSE m
       /\ Commit(Effect(m, u, r), Op("missionChange", 0, "", m, TRUE))
  /\ UNCHANGED <<phase, nonHookVars>>

Unmount ==
  /\ phase = "mounted"
  /\ phase' = "unmounted"
  /\ cleanupFor' = "null"
  /\ \E c \in {Cur} : Commit(RunCleanup(c), Op("unmount", 0, "", missionId, TRUE))
  /\ UNCHANGED <<missionId, nonHookVars>>

Reconnect(u) ==
  /\ phase = "mounted"
  /\ \E c \in {Cur} : Commit(ReconnectOp(u, c), Op("reconnect", 0, "", missionId, u))
  /\ UNCHANGED <<phase, missionId, cleanupFor, nonHookVars>>

SendMessage(text) ==
  /\ phase = "mounted"
  /\ \E c \in {Cur} : Commit(SendMessageOp(text, c), Op("sendMessage", 0, text, missionId, TRUE))
  /\ UNCHANGED <<phase, missionId, cleanupFor, nonHookVars>>

\* user.getIdToken() resolves for a connect() of mission m: the socket is
\* constructed, its handlers are set, and it becomes wsRef.current.
ConstructSocket(m, s, r) ==
  [r EXCEPT !.pending[m] = @ - 1, !.socks[s] = NewSocket(m), !.wsRef = s]

TokenResolved(m) ==
  /\ pendingTokens[m] > 0
  /\ FreeSlots # {}
  /\ \E c \in {Cur}, s \in {NextSlot} :
       Commit(ConstructSocket(m, s, c), Op("construct", 0, "", m, TRUE))
  /\ UNCHANGED <<phase, missionId, cleanupFor, nonHookVars>>

\* user.getIdToken() rejects: the catch block of connect()
ConnectCatch(m, r) ==
  [r EXCEPT !.pending[m] = @ - 1, !.isConnecting = FALSE,
            !.notice = "failed_to_authenticate"]

TokenRejected(m) ==
  /\ pendingTokens[m] > 0
  /\ \E c \in {Cur} : Commit(ConnectCatch(m, c), Op("tokenRejected", 0, "", m, TRUE))
  /\ UNCHANGED <<phase, missionId, cleanupFor, nonHookVars>>

WsOpen(s) ==
  /\ sockets[s].used
  /\ sockets[s].readyState = "CONNECTING"
  /\ \E c \in {[Cur EXCEPT !.socks[s].readyState = "OPEN", !.socks[s].opened = TRUE]} :
       Commit(OnOpen(s, c), Op("open", 0, "", sockets[s].mission, TRUE))
  /\ UNCHANGED <<phase, missionId, cleanupFor, nonHookVars>>

\* The close event of socket s. A connection that fails (ABNORMAL on a socket
\* nobody closed) fires the error event first, in the same task.
WsClose(s, code) ==
  /\ code \in CloseCodes(sockets[s])
  /\ \E c \in {[Cur EXCEPT !.socks[s] = ClosedSocket(@)]} :
     \E r \in {IF code = ABNORMAL /\ sockets[s].readyState # "CLOSING" THEN OnError(c) ELSE c} :
       Commit(OnClose(s, code, r), Op("close", code, "", sockets[s].mission, TRUE))
  /\ UNCHANGED <<phase, missionId, cleanupFor, nonHookVars>>

TimerFires(s, u) ==
  /\ sockets[s].used
  /\ sockets[s].timer
  /\ \E c \in {[Cur EXCEPT !.socks[s].timer = FALSE]} :
       Commit(OnReconnectTimer(s, u, c), Op("timer", 0, "", sockets[s].mission, TRUE))
  /\ UNCHANGED <<phase, missionId, cleanupFor, nonHookVars>>

\* An inbound frame on socket s
WsMessage(s, type) ==
  /\ sockets[s].used
  /\ sockets[s].readyState = "OPEN"
  /\ \E c \in {Cur} : Commit(OnMessage(type, c), Op(type, 0, "", sockets[s].mission, TRUE))
  /\ UNCHANGED <<phase, missionId, cleanupFor, nonHookVars>>

\* ============================================================== ApiClient
\* Strings are sequences of words; a token is a sequence of characters.
Includes(hay, pat) ==
  \E i \in 0..(Len(hay) - Len(pat)) : SubSeq(hay, i + 1, i + Len(pat)) = pat

\* token.split('.')
RECURSIVE Split(_)
Split(chars) ==
  IF chars = <<>> THEN << <<>> >>
  ELSE LET rest == Split(Tail(chars))
       IN  IF Head(chars) = "." THEN << <<>> >> \o rest
           ELSE << <<Head(chars)>> \o Head(rest) >> \o Tail(rest)

\* isValidTokenFormat(token)
IsValidTokenFormat(token) ==
  LET parts == Split(token)
  IN  Len(parts) = 3 /\ \A i \in 1..Len(parts) : Len(parts[i]) > 0

RECURSIVE CharSeqs(_)
CharSeqs(n) ==
  IF n = 0 THEN {<<>>}
  ELSE CharSeqs(n - 1) \cup {<<c>> \o q : c \in {"x", "."}, q \in {q \in CharSeqs(n - 1) : Len(q) = n - 1}}

\* What the credential supplier resolves to: a string, or null; null and the
\* empty string are both falsy and are both the empty sequence here.
TokenInputs == CharSeqs(MaxTokenLen)

Statuses == {200, 304, 401, 403, 404, 500, 503}
Methods == {"GET", "POST", "PUT", "DELETE"}

NoBody == [parses |-> TRUE, message |-> <<>>, error |-> <<>>, detail |-> <<>>,
           code |-> <<>>, error_code |-> <<>>]
Bodies ==
  { [NoBody EXCEPT !.parses = FALSE],
    NoBody,
    [NoBody EXCEPT !.message = <<"Token", "expired">>],
    [NoBody EXCEPT !.message = <<"invalid", "token">>],
    [NoBody EXCEPT !.message = <<"session", "not", "found">>],
    [NoBody EXCEPT !.message = <<"invalid", "request">>],
    [NoBody EXCEPT !.message = <<"not", "found">>],
    [NoBody EXCEPT !.message = <<"limit", "is", "500">>],
    [NoBody EXCEPT !.error = <<"TOKEN_EXPIRED">>],
    [NoBody EXCEPT !.detail = <<"Session", "has", "expired">>],
    [NoBody EXCEPT !.detail = <<"Token", "expired">>],
    [NoBody EXCEPT !.code = <<"auth/id-token-expired">>],
    [NoBody EXCEPT !.error_code = <<"TOKEN_EXPIRED">>] }

ApiIdle ==
  [ pc |-> "idle", variant |-> "none", method |-> "none", hasCallback |-> FALSE,
    status |-> 0, message |-> <<>>, expiredCalls |-> 0, fetches |-> 0, result |-> "none" ]

\* this.onSessionExpired?.() / this.onTokenExpired?.()
Expired(a) == IF a.hasCallback THEN [a EXCEPT !.expiredCalls = @ + 1] ELSE a

\* The first error message of the non-ok branch, by status.
StatusMessage(variant, status) ==
  IF status = 401
  THEN IF variant = "cookie"
       THEN <<"Session", "expired", "Please", "sign", "in", "again">>
       ELSE <<"Authentication", "failed", "Please", "sign", "in", "again">>
  ELSE IF status = 403 THEN <<"Access", "forbidden", "Insufficient", "permissions">>
  ELSE IF status >= 500 THEN <<"500", "Internal", "Server", "Error", ToString(status)>>
  ELSE IF status >= 400 THEN <<"400", "Bad", "Request", ToString(status)>>
  ELSE <<"HTTP", "error", "status", ToString(status)>>

\* The expiry markers looked for in a parsed error body.
BodySaysExpired(variant, b) ==
  IF variant = "cookie"
  THEN \/ b.detail \in { <<"No", "session", "cookie", "found">>, <<"Session", "has", "expired">>,
                         <<"Session", "has", "been", "revoked">>, <<"Invalid", "session", "cookie">>,
                         <<"Invalid", "or", "expired", "session">> }
       \/ Includes(b.message, <<"session">>)
       \/ Includes(b.message, <<"expired">>)
       \/ Includes(b.message, <<"invalid">>)
  ELSE \/ b.code = <<"auth/id-token-expired">>
       \/ Includes(b.message, <<"expired">>)
       \/ Includes(b.message, <<"invalid", "token">>)
       \/ b.error_code = <<"TOKEN_EXPIRED">>
       \/ b.detail = <<"Token", "expired">>

\* The expiry markers looked for in the caught error's message.
MessageSaysExpired(variant, msg) ==
  IF variant = "cookie"
  THEN \E pat \in { <<"Session", "expired">>, <<"No", "session", "cookie", "found">>,
                    <<"Session", "has", "been", "revoked">>, <<"Invalid", "session", "cookie">>,
                    <<"Invalid", "or", "expired", "session">>, <<"expired">>, <<"session">>,
                    <<"Authentication", "failed">> } : Includes(msg, pat)
  ELSE \E pat \in { <<"Authentication", "failed">>, <<"expired">>, <<"invalid", "token">>,
                    <<"TOKEN_EXPIRED">>, <<"Token", "expired">> } : Includes(msg, pat)

\* The catch block of makeRequest for an Error with message msg.
Catch(a, msg) ==
  LET a1 == IF MessageSaysExpired(a.variant, msg) THEN Expired(a) ELSE a
  IN  [a1 EXCEPT !.pc = "done", !.message = msg, !.result = "error"]

\* `if (!response.ok)` up to the read of the error body
NotOk(a, status) ==
  LET a1 == [a EXCEPT !.status = status, !.message = StatusMessage(a.variant, status),
                      !.pc = "errorBody"]
  IN  IF status = 401 THEN Expired(a1) ELSE a1

\* The error body has been read: the message is extended, the body is
\* searched for expiry markers, the error is thrown and caught.
ErrorBody(a, b) ==
  IF ~b.parses THEN Catch(a, a.message)
  ELSE LET extra == IF b.message # <<>> THEN b.message ELSE b.error
           msg == IF extra # <<>> THEN a.message \o extra ELSE a.message
           a1 == IF BodySaysExpired(a.variant, b) THEN Expired(a) ELSE a
       IN  Catch(a1, msg)

\* `const data = await response.json(); return { data }`
OkBody(a, b) ==
  IF ~b.parses THEN Catch(a, <<"Unexpected", "token", "in", "JSON">>)
  ELSE [a EXCEPT !.pc = "done", !.result = "data"]

\* The token variant before its try block: a missing or malformed token throws.
WithToken(a, tok) ==
  IF tok = <<>> \/ ~IsValidTokenFormat(tok)
  THEN [a EXCEPT !.pc = "done", !.result = "rejected"]
  ELSE [a EXCEPT !.pc = "fetch", !.fetches = @ + 1]

\* get / post / put / delete: each returns makeRequest(endpoint, {method, ...})
ApiStart(variant, method, cb) ==
  /\ api.pc = "idle"
  /\ api' = IF variant = "cookie"
            THEN [ApiIdle EXCEPT !.pc = "fetch", !.variant = variant, !.method = method,
                                 !.hasCallback = cb, !.fetches = 1]
            ELSE [ApiIdle EXCEPT !.pc = "token", !.variant = variant, !.method = method,
                                 !.hasCallback = cb]
  /\ UNCHANGED nonApiVars

\* await this.getToken() resolves
ApiToken(tok) ==
  /\ api.pc = "token"
  /\ api' = WithToken(api, tok)
  /\ UNCHANGED nonApiVars

\* await fetch(...) rejects (network failure)
ApiNetworkFailure ==
  /\ api.pc = "fetch"
  /\ api' = Catch(api, <<"Failed", "to", "fetch">>)
  /\ UNCHANGED nonApiVars

\* await fetch(...) resolves with a response
ApiResponse(status) ==
  /\ api.pc = "fetch"
  /\ api' = IF status >= 200 /\ status <= 299
            THEN [api EXCEPT !.status = status, !.pc = "body"]
            ELSE NotOk(api, status)
  /\ UNCHANGED nonApiVars

\* await response.json() settles
ApiBody(b) ==
  /\ api.pc \in {"body", "errorBody"}
  /\ api' = IF api.pc = "body" THEN OkBody(api, b) ELSE ErrorBody(api, b)
  /\ UNCHANGED nonApiVars

\* The caller has the outcome; the client is ready for the next request.
ApiReturn ==
  /\ api.pc = "done"
  /\ api' = ApiIdle
  /\ UNCHANGED nonApiVars

NextApi ==
  \/ \E v \in {"cookie", "token"}, m \in Methods, cb \in BOOLEAN : ApiStart(v, m, cb)
  \/ \E tok \in TokenInputs : ApiToken(tok)
  \/ ApiNetworkFailure
  \/ \E st \in Statuses : ApiResponse(st)
  \/ \E b \in Bodies : ApiBody(b)
  \/ ApiReturn

\* ============================================================ AuthProvider
\* Two variants of the provider are modelled: "cookie" (session cookie,
\* src/unnamed/part_002 lines 882-1105) and "token" (token getter, lines
\* 28-171). A state change re-renders the provider and runs the effects whose
\* dependencies changed; this is part of the step that changed the state.
AuthUnmounted ==
  [ mounted |-> FALSE, variant |-> "none",
    user |-> FALSE, userProfile |-> FALSE, isInitialLoad |-> TRUE, error |-> "null",
    \* apiClient: null, or a client with the isInitialLoad its handler holds
    \* and with or without a token getter
    client |-> [made |-> FALSE, cbInit |-> FALSE, hasToken |-> FALSE],
    timer |-> FALSE,         \* cookie: the 1 s timer of the profile effect is pending
    fetchesInit |-> 0,       \* GET /user/profile in flight, fetchUserProfile closure
                             \* with isInitialLoad = TRUE
    fetchesLater |-> 0,      \* the same with isInitialLoad = FALSE
    refreshes |-> 0,         \* POST /auth/refresh-session in flight
    logouts |-> 0,           \* signOut() calls awaiting POST /auth/logout
    firebases |-> 0,         \* signOut() calls awaiting firebaseSignOut(auth); they
                             \* differ in nothing, so the count stops at MaxSignOuts
    expired |-> FALSE,       \* a request of useApiClient has been answered 401
    \* the last step:
    obs |-> [ op |-> "none",        \* the handler that ran
              status |-> 0,         \* the HTTP status of the response it handled, 0 if none
              ok |-> TRUE,          \* the request it completed returned data
              marked |-> FALSE,     \* the response carried an expiry marker
              calls |-> 0,          \* invocations of handleSessionExpired
              signOutCalls |-> 0,   \* invocations of signOut()
              warning |-> "none" ] ]  \* showWarning(): "expired", "refresh_failed"

AuthOps(p) == p.fetchesInit + p.fetchesLater + p.refreshes + p.logouts
AwaitFirebase(n) == IF n < MaxSignOuts THEN n + 1 ELSE MaxSignOuts

\* The outcome of one ApiClient request of the provider: a response with a
\* status and a body, or a network failure (status 0).
ApiOutcome(variant, status, b) ==
  LET a == [ApiIdle EXCEPT !.pc = "fetch", !.variant = variant, !.hasCallback = TRUE,
                           !.fetches = 1]
  IN  IF status = 0 THEN Catch(a, <<"Failed", "to", "fetch">>)
      ELSE IF status >= 200 /\ status <= 299
           THEN OkBody([a EXCEPT !.status = status, !.pc = "body"], b)
           ELSE ErrorBody(NotOk(a, status), b)

\* The response says "expired" in a way the client looks for: in the body, or
\* in the text it appends to the error message.
Marked(variant, status, b) ==
  /\ status # 0 /\ b.parses
  /\ \/ BodySaysExpired(variant, b)
     \/ MessageSaysExpired(variant, b.message)
     \/ MessageSaysExpired(variant, b.error)

\* What a request of the provider can come back with: the ApiClient's result
\* for every status and body, for a network failure (status 0) and, in the
\* token variant, for getToken() giving null, which makes makeRequest throw.
Outcome(variant, status, b) ==
  [o |-> ApiOutcome(variant, status, b), status |-> status,
   marked |-> Marked(variant, status, b)]
CookieOutcomes == {Outcome("cookie", st, b) : st \in {0} \cup Statuses, b \in Bodies}
TokenOutcomes ==
  {Outcome("token", st, b) : st \in {0} \cup Statuses, b \in Bodies}
  \cup {[o |-> WithToken([ApiIdle EXCEPT !.variant = "token", !.hasCallback = TRUE], <<>>),
         status |-> 0, marked |-> FALSE]}

\* signOut() is called: the cookie variant first awaits apiClient.logout()
\* when its closure holds a client, then both await firebaseSignOut(auth).
SignOutCall(p, withLogout) ==
  LET p1 == [p EXCEPT !.obs.signOutCalls = @ + 1]
  IN  IF p.variant = "cookie" /\ withLogout
      THEN [p1 EXCEPT !.logouts = @ + 1]
      ELSE [p1 EXCEPT !.firebases = AwaitFirebase(@)]

\* handleSessionExpired holding the signOut of the current render, whose
\* apiClient is set.
HandleSessionExpiredFresh(p, cbInit) ==
  LET p1 == [p EXCEPT !.obs.calls = @ + 1]
  IN  IF cbInit
      THEN SignOutCall(p1, p.client.made)
      ELSE SignOutCall([p1 EXCEPT !.obs.warning = "expired", !.error = "null"], p.client.made)

\* handleSessionExpired of a client whose effect ran with isInitialLoad =
\* cbInit. The cookie variant's effect has no dependencies: its handler holds
\* the signOut of the first render, whose apiClient is null.
HandleSessionExpired(p, cbInit) ==
  LET p1 == [p EXCEPT !.obs.calls = @ + 1]
  IN  IF cbInit
      THEN SignOutCall(p1, FALSE)
      ELSE SignOutCall([p1 EXCEPT !.obs.warning = "expired", !.error = "null"], FALSE)

RECURSIVE Callbacks(_, _, _)
Callbacks(p, n, cbInit) ==
  IF n = 0 THEN p ELSE Callbacks(HandleSessionExpired(p, cbInit), n - 1, cbInit)

\* The isInitialLoad held by the handler of the client that made a request
\* whose fetchUserProfile closure held capInit.
CallbackInit(p, capInit) == IF p.variant = "cookie" THEN TRUE ELSE capInit

\* fetchUserProfile() of a render with this apiClient and this isInitialLoad.
\* A token client made while user was null has no token getter: the request
\* fails before it is sent and the catch block reports an unexpected error.
StartFetch(p, client, capInit) ==
  IF ~client.made \/ (p.variant = "token" /\ ~p.user) THEN p
  ELSE IF p.variant = "token" /\ ~client.hasToken THEN [p EXCEPT !.error = "500"]
  ELSE IF capInit THEN [p EXCEPT !.error = "null", !.fetchesInit = @ + 1]
  ELSE [p EXCEPT !.error = "null", !.fetchesLater = @ + 1]

\* The tests fetchUserProfile makes on the error text.
AuthError(variant, msg) ==
  IF variant = "cookie"
  THEN \E pat \in { <<"No", "session", "cookie", "found">>, <<"Session", "has", "expired">>,
                    <<"Session", "has", "been", "revoked">>, <<"Invalid", "session", "cookie">>,
                    <<"Invalid", "or", "expired", "session">>, <<"session">>, <<"expired">>,
                    <<"Authentication", "failed">> } : Includes(msg, pat)
  ELSE Includes(msg, <<"Authentication", "failed">>) \/ Includes(msg, <<"401">>)

\* fetchUserProfile after `await apiClient.getUserProfile()`; o is what the
\* ApiClient returned (or threw: result "rejected").
FetchContinuation(p, capInit, o) ==
  IF o.result = "data" THEN [p EXCEPT !.userProfile = TRUE, !.isInitialLoad = FALSE]
  ELSE IF AuthError(p.variant, o.message)
       THEN IF capInit THEN SignOutCall(p, TRUE) ELSE p
  ELSE IF \/ Includes(o.message, <<"500">>)
          \/ Includes(o.message, <<"Internal", "Server", "Error">>)
       THEN [p EXCEPT !.error = "500"]
  ELSE IF /\ o.result = "rejected"
          /\ ~Includes(o.message, <<"400">>)
          /\ ~Includes(o.message, <<"Bad", "Request">>)
       THEN [p EXCEPT !.error = "500"]
  ELSE [p EXCEPT !.error = "400"]

\* The effects that run after the state went from q to p.
\* token: the client effect depends on user and isInitialLoad; the profile
\* effect runs once in the render of the change, with the previous client,
\* and again in the render that setApiClient causes.
\* cookie: the profile effect clears its timer and, for a signed-in user
\* without profile, sets it again (initial load) or fetches at once.
Render(q, p) ==
  LET Wanted(x) == x.user /\ x.client.made /\ ~x.userProfile
  IN  IF <<q.user, q.userProfile, q.isInitialLoad>> = <<p.user, p.userProfile, p.isInitialLoad>>
      THEN p
      ELSE IF p.variant = "token"
      THEN LET p1 == IF Wanted(p) THEN StartFetch(p, p.client, p.isInitialLoad) ELSE p
           IN  IF q.user = p.user /\ q.isInitialLoad = p.isInitialLoad THEN p1
               ELSE LET c == [made |-> TRUE, cbInit |-> p.isInitialLoad, hasToken |-> p.user]
                        p2 == [p1 EXCEPT !.client = c]
                    IN  IF Wanted(p2) THEN StartFetch(p2, c, p2.isInitialLoad) ELSE p2
      ELSE LET p1 == [p EXCEPT !.timer = FALSE]
           IN  IF ~Wanted(p1) THEN p1
               ELSE IF p1.isInitialLoad THEN [p1 EXCEPT !.timer = TRUE]
               ELSE StartFetch(p1, p1.client, FALSE)

\* A step of the provider: the handler's result p (from authp), rendered.
Begin(name) == [authp EXCEPT !.obs = [AuthUnmounted.obs EXCEPT !.op = name]]
AuthCommit(p) ==
  \E r \in {Render(authp, p)} :
    /\ AuthOps(r) <= MaxAuthOps
    /\ authp' = r
    /\ UNCHANGED nonAuthVars

\* The provider mounts: the client effect makes the first client.
AuthMount(variant) ==
  /\ ~authp.mounted
  /\ AuthCommit([Begin("mount") EXCEPT
       !.mounted = TRUE, !.variant = variant,
       !.client = [made |-> TRUE, cbInit |-> TRUE, hasToken |-> FALSE]])

\* onAuthStateChanged callback with a user (u) or with null
AuthStateChanged(u) ==
  /\ authp.mounted
  /\ AuthCommit(IF u THEN [Begin("authState") EXCEPT !.user = TRUE]
                ELSE [Begin("authState") EXCEPT !.user = FALSE, !.userProfile = FALSE])

\* fetchUserProfile() called through the context by a page of the signed-in
\* user (retry page, settings)
ManualFetch ==
  /\ authp.mounted /\ authp.user
  /\ AuthCommit(StartFetch(Begin("fetchUserProfile"), authp.client, authp.isInitialLoad))

\* signOut() called through the context
ManualSignOut ==
  /\ authp.mounted
  /\ AuthCommit(SignOutCall(Begin("signOut"), authp.client.made))

\* A request of a component's client (useApiClient) is answered 401: its
\* handleSessionExpired awaits the signOut() of the context.
SessionExpired ==
  /\ authp.mounted
  /\ AuthCommit(SignOutCall([Begin("sessionExpired") EXCEPT !.obs.status = 401, !.obs.calls = 1,
                                                            !.expired = TRUE],
                            authp.client.made))

\* cookie: the 1 s timer of the profile effect fires
ProfileTimerFires ==
  /\ authp.timer
  /\ AuthCommit(StartFetch([Begin("profileTimer") EXCEPT !.timer = FALSE], authp.client, TRUE))

\* cookie: the refresh interval fires (it exists while user and apiClient do)
RefreshTick ==
  /\ authp.mounted /\ authp.variant = "cookie"
  /\ authp.user /\ authp.client.made
  /\ AuthCommit([Begin("refreshTick") EXCEPT !.refreshes = @ + 1])

\* GET /user/profile of a closure with isInitialLoad = capInit completes
ProfileResponse(capInit, x) ==
  /\ IF capInit THEN authp.fetchesInit > 0 ELSE authp.fetchesLater > 0
  /\ x \in IF authp.variant = "cookie" THEN CookieOutcomes ELSE TokenOutcomes
  /\ LET p0 == [Begin("profileResponse") EXCEPT
                  !.obs.status = x.status, !.obs.ok = (x.o.result = "data"),
                  !.obs.marked = x.marked]
         p1 == IF capInit THEN [p0 EXCEPT !.fetchesInit = @ - 1]
               ELSE [p0 EXCEPT !.fetchesLater = @ - 1]
         p2 == Callbacks(p1, x.o.expiredCalls, CallbackInit(p1, capInit))
     IN  AuthCommit(FetchContinuation(p2, capInit, x.o))

\* POST /auth/refresh-session completes; the interval callback warns when
\* refreshSession() returned false
RefreshResponse(x) ==
  /\ authp.refreshes > 0
  /\ LET p0 == [Begin("refreshResponse") EXCEPT
                  !.obs.status = x.status, !.obs.ok = (x.o.result = "data"),
                  !.obs.marked = x.marked, !.refreshes = @ - 1]
         p1 == Callbacks(p0, x.o.expiredCalls, TRUE)
     IN  AuthCommit(IF x.o.result = "data" THEN p1
                    ELSE [p1 EXCEPT !.obs.warning = "refresh_failed"])

\* POST /auth/logout completes; signOut() goes on to firebaseSignOut(auth)
LogoutResponse(x) ==
  /\ authp.logouts > 0
  /\ LET p0 == [Begin("logoutResponse") EXCEPT
                  !.obs.status = x.status, !.obs.ok = (x.o.result = "data"),
                  !.obs.marked = x.marked,
                  !.logouts = @ - 1, !.firebases = AwaitFirebase(@)]
     IN  AuthCommit(Callbacks(p0, x.o.expiredCalls, TRUE))

\* firebaseSignOut(auth) settles and signOut() completes: on success it
\* clears the identity (the onAuthStateChanged(null) callback does the same);
\* on failure the catch block changes nothing.
SignOutDone(ok) ==
  /\ authp.firebases > 0
  /\ LET p0 == [Begin("signOutDone") EXCEPT !.obs.ok = ok, !.firebases = @ - 1]
     IN  AuthCommit(IF ok
                    THEN [p0 EXCEPT !.user = FALSE, !.userProfile = FALSE,
                                    !.isInitialLoad = TRUE]
                    ELSE p0)

\* What the provider does unasked.
NextAuthAuto ==
  \/ \E v \in {"cookie", "token"} : AuthMount(v)
  \/ \E u \in BOOLEAN : AuthStateChanged(u)
  \/ ProfileTimerFires
  \/ \E c \in BOOLEAN, x \in CookieOutcomes \cup TokenOutcomes : ProfileResponse(c, x)
  \/ \E x \in CookieOutcomes : LogoutResponse(x)
  \/ \E ok \in BOOLEAN : SignOutDone(ok)

NextAuth ==
  \/ NextAuthAuto
  \/ ManualFetch
  \/ ManualSignOut
  \/ SessionExpired
  \/ RefreshTick
  \/ \E x \in CookieOutcomes : RefreshResponse(x)

\* ============================================================= RateLimiter
\* Date.now() when the page loads; the value only has to lie more than a
\* window above 0, the initial lastMessageTime of the chat.
Epoch == 100000
LimiterKeys == {"user_u1", "user_anonymous", "connection_u1"}

\* The global rateLimiter instance and the clock it reads. The fields after
\* `attempts` record the calls: the arguments and result of the last one, a
\* bit that flips on every call, and the times of all allowed calls so far.
LimiterInit ==
  [ now |-> Epoch,
    attempts |-> [k \in LimiterKeys |-> <<>>],
    maxAttempts |-> 0, windowMs |-> 0, key |-> "none", result |-> TRUE,
    flip |-> FALSE,
    allowed |-> [k \in LimiterKeys |-> <<>>] ]

\* isAllowed with `<=` in place of `<` in the filter
isAllowedInclusive(l, key, maxAttempts, windowMs) ==
  LET validAttempts == SelectSeq(l.attempts[key], LAMBDA time : l.now - time <= windowMs)
  IN  IF Len(validAttempts) >= maxAttempts
      THEN [l EXCEPT !.result = FALSE]
      ELSE [l EXCEPT !.attempts[key] = Append(validAttempts, l.now), !.result = TRUE]

isAllowed(l, key, maxAttempts, windowMs) ==
  LET validAttempts == SelectSeq(l.attempts[key], LAMBDA time : l.now - time < windowMs)
  IN  IF Len(validAttempts) >= maxAttempts
      THEN [l EXCEPT !.result = FALSE]
      ELSE [l EXCEPT !.attempts[key] = Append(validAttempts, l.now), !.result = TRUE]

\* A call of rateLimiter.isAllowed and its record.
LimiterCall(l, key, maxAttempts, windowMs) ==
  LET r == isAllowed(l, key, maxAttempts, windowMs)
  IN  [r EXCEPT !.maxAttempts = maxAttempts, !.windowMs = windowMs, !.key = key,
                !.flip = ~l.flip,
                !.allowed[key] = IF r.result THEN Append(@, l.now) ELSE @]

\* Time passes.
LimiterTick ==
  /\ limiter.now < Epoch + MaxTime
  /\ limiter' = [limiter EXCEPT !.now = @ + 1]
  /\ UNCHANGED <<nonChatVars, chat, page, outbound>>

\* rateLimiter.isAllowed(key, maxAttempts, windowMs); the first call fixes
\* maxAttempts and windowMs for the run.
IsAllowed(key, maxAttempts, windowMs) ==
  /\ limiter.maxAttempts = 0 \/ (limiter.maxAttempts = maxAttempts /\ limiter.windowMs = windowMs)
  /\ limiter' = LimiterCall(limiter, key, maxAttempts, windowMs)
  /\ UNCHANGED <<nonChatVars, chat, page, outbound>>

NextLimiter ==
  \/ LimiterTick
  \/ \E key \in {"user_u1", "user_anonymous"}, m \in 1..MaxAttempts, w \in 1..MaxWindow : IsAllowed(key, m, w)

\* ============================================================== chat input
\* A chat input is a sequence of pieces: a letter, a space, a line feed (a
\* control character that is also white space), an HTML tag, the text
\* "javascript:" of the injection denylist, and a run of 1000 letters.
Pieces == {"a", " ", "\n", "<b>", "javascript:", "a*1000"}
RECURSIVE InputsUpTo(_)
InputsUpTo(n) ==
  IF n = 0 THEN {<<>>}
  ELSE InputsUpTo(n - 1) \cup
       {Append(s, c) : s \in {q \in InputsUpTo(n - 1) : Len(q) = n - 1}, c \in Pieces}
Inputs == InputsUpTo(MaxPieces)

\* String.prototype.length
RECURSIVE length(_)
length(s) ==
  IF s = <<>> THEN 0
  ELSE length(Tail(s)) + CASE Head(s) = "a*1000" -> 1000
                           [] Head(s) = "javascript:" -> 11
                           [] Head(s) = "<b>" -> 3
                           [] OTHER -> 1

\* String.prototype.trim
trim(s) ==
  LET kept == {i \in 1..Len(s) : s[i] \notin {" ", "\n"}}
  IN  IF kept = {} THEN <<>>
      ELSE SubSeq(s, CHOOSE i \in kept : \A j \in kept : i <= j,
                     CHOOSE i \in kept : \A j \in kept : i >= j)

\* sanitizeInput: drop control characters, trim, strip every tag (DOMPurify
\* with no allowed tags)
sanitizeInput(input) ==
  SelectSeq(trim(SelectSeq(input, LAMBDA c : c # "\n")), LAMBDA c : c # "<b>")

MESSAGE_MIN_LENGTH == 1
MESSAGE_MAX_LENGTH == 1000

\* validateMessage: "ok", or the reason of the rejection
validateMessage(message) ==
  LET sanitized == sanitizeInput(message)
  IN  IF length(sanitized) < MESSAGE_MIN_LENGTH THEN "empty"
      ELSE IF length(sanitized) > MESSAGE_MAX_LENGTH THEN "too_long"
      ELSE IF \E i \in 1..Len(sanitized) : sanitized[i] = "javascript:" THEN "dangerous"
      ELSE "ok"

\* A send of a chat: the input it was called with, and the user_message
\* frame it transmitted, if it transmitted one.
Send(path, input, sent, message) ==
  [path |-> path, input |-> input, sent |-> sent, frame |-> message]

\* ------------------------------------------------------------- PolarisChat
MESSAGE_COOLDOWN_MS == 1000
MAX_MESSAGES_PER_MINUTE == 30
MINUTE == 60000
MAX_CONNECTION_ATTEMPTS == 5

\* initializeConnection() of a render whose isInitialized is this: past the
\* guard it goes on to await the token and the session.
InitializeConnection(c, isInitialized) ==
  IF c.isInitializingRef \/ isInitialized THEN c
  ELSE [c EXCEPT !.isInitializingRef = TRUE, !.error = "none", !.inits = @ + 1]

\* The chat of a signed-in user after it has mounted: the mount effect has
\* called initializeConnection().
ChatInit ==
  InitializeConnection(
    [ open |-> FALSE,             \* wsRef.current is OPEN
      connecting |-> FALSE,       \* wsRef.current is CONNECTING
      lastMessageTime |-> 0, error |-> "none",
      messages |-> <<>>,          \* the `from` of every message of the list
      isInitialized |-> FALSE, isInitializingRef |-> FALSE, retryCount |-> 0,
      inits |-> 0 ],              \* initializeConnection() calls awaiting the session
    FALSE)

\* The awaits of initializeConnection() settle: with a session, and the
\* socket is constructed and kept in wsRef, or by throwing.
ChatSession(ok) ==
  /\ chat.inits > 0
  /\ chat' = IF ok
             THEN [chat EXCEPT !.inits = @ - 1, !.isInitializingRef = FALSE,
                               !.connecting = TRUE, !.open = FALSE]
             ELSE [chat EXCEPT !.inits = @ - 1, !.isInitializingRef = FALSE,
                               !.error = "connect_failed"]
  /\ UNCHANGED <<nonChatVars, limiter, page, outbound>>

\* ws.onopen / ws.onclose of the chat's socket
ChatSocket(open) ==
  /\ IF open THEN chat.connecting ELSE chat.open \/ chat.connecting
  /\ chat' = IF open
             THEN [chat EXCEPT !.open = TRUE, !.connecting = FALSE, !.isInitialized = TRUE]
             ELSE [chat EXCEPT !.open = FALSE, !.connecting = FALSE]
  /\ UNCHANGED <<nonChatVars, limiter, page, outbound>>

\* ws.onerror of the chat's socket
ChatSocketError ==
  /\ chat.open \/ chat.connecting
  /\ chat' = [chat EXCEPT !.error = "connection"]
  /\ UNCHANGED <<nonChatVars, limiter, page, outbound>>

\* ws.onmessage: a frame of this type, or one that validateWebSocketMessage
\* rejects ("invalid")
ChatFrame(type) ==
  /\ chat.open
  /\ chat' = CASE type = "connected" ->
                    [chat EXCEPT !.messages = @ \o <<"system", "system">>]
               [] type = "agent_message" -> [chat EXCEPT !.messages = Append(@, "agent")]
               [] type \in {"agent_handover", "mission_created"} ->
                    [chat EXCEPT !.messages = Append(@, "system")]
               [] type = "error" ->
                    [chat EXCEPT !.messages = Append(@, "system"), !.error = "server"]
               [] type = "invalid" -> [chat EXCEPT !.error = "invalid"]
               [] OTHER -> chat
  /\ UNCHANGED <<nonChatVars, limiter, page, outbound>>

\* retryConnection(), the button of the error banner (shown while error is
\* set and retryCount < 3). Its initializeConnection is the one of the render
\* that drew the button, which holds that render's isInitialized.
RetryConnection ==
  /\ chat.error # "none" /\ chat.retryCount < 3
  /\ UNCHANGED <<nonChatVars, page, outbound>>
  /\ IF chat.retryCount >= 3
     THEN chat' = [chat EXCEPT !.error = "max_retries"] /\ UNCHANGED limiter
     ELSE /\ limiter' = LimiterCall(limiter, "connection_u1", MAX_CONNECTION_ATTEMPTS, MINUTE)
          /\ chat' = IF ~limiter'.result
                     THEN [chat EXCEPT !.error = "too_many_connections"]
                     ELSE InitializeConnection(
                            [chat EXCEPT !.error = "none", !.messages = <<>>,
                                         !.retryCount = @ + 1,
                                         !.isInitializingRef = FALSE,
                                         !.isInitialized = FALSE,
                                         !.open = FALSE, !.connecting = FALSE],
                            chat.isInitialized)

\* Time passes, in steps longer than the cooldown.
ChatTick(until) ==
  /\ limiter.now + 2 * MESSAGE_COOLDOWN_MS <= Epoch + until
  /\ limiter' = [limiter EXCEPT !.now = @ + 2 * MESSAGE_COOLDOWN_MS]
  /\ UNCHANGED <<nonChatVars, chat, page, outbound>>

\* sendMessage() with this text in the input field
ChatSend(input) ==
  /\ UNCHANGED <<nonChatVars, page>>
  /\ IF ~chat.open
     THEN /\ outbound' = Send("polaris", input, FALSE, <<>>)
          /\ UNCHANGED <<chat, limiter>>
     ELSE IF limiter.now - chat.lastMessageTime < MESSAGE_COOLDOWN_MS
     THEN /\ chat' = [chat EXCEPT !.error = "cooldown"]
          /\ outbound' = Send("polaris", input, FALSE, <<>>)
          /\ UNCHANGED limiter
     ELSE /\ limiter' = LimiterCall(limiter, "user_u1", MAX_MESSAGES_PER_MINUTE, MINUTE)
          /\ IF ~limiter'.result
             THEN /\ chat' = [chat EXCEPT !.error = "too_many"]
                  /\ outbound' = Send("polaris", input, FALSE, <<>>)
             ELSE IF validateMessage(input) # "ok"
             THEN /\ chat' = [chat EXCEPT !.error = validateMessage(input)]
                  /\ outbound' = Send("polaris", input, FALSE, <<>>)
             ELSE /\ chat' = [chat EXCEPT !.lastMessageTime = limiter.now, !.error = "none",
                                          !.messages = Append(@, "user")]
                  /\ outbound' = Send("polaris", input, TRUE, sanitizeInput(trim(input)))

\* The chat under valid messages sent at a steady pace.
NextRate ==
  \/ ChatSession(TRUE)
  \/ \E open \in BOOLEAN : ChatSocket(open)
  \/ ChatTick(RateHorizon)
  \/ ChatSend(<<"a">>)

\* --------------------------------------------------------- MissionViewPage
\* Checkpoint lists the server reports.
Snapshots == {<<>>, <<"c1">>, <<"c1", "c2">>}

PageInit ==
  [ mounted |-> FALSE,
    total |-> 0,                      \* mission.byte_size_checkpoints.length
    completedCheckpoints |-> <<>>,
    hasLoadedEnrolledDataRef |-> FALSE,
    loading |-> FALSE,                \* getUserEnrolledMissions() is in flight
    open |-> FALSE,                   \* the hook's socket is OPEN
    isTyping |-> FALSE,
    chatMessages |-> <<>>,            \* the `from` of every message of the list
    \* the last checkpoint_update frame passed on by the hook, if any
    pushed |-> FALSE, completed |-> <<>>, progress |-> 0,
    op |-> "none" ]

getProgressPercentage(g) ==
  IF g.total = 0 THEN 0 ELSE (Len(g.completedCheckpoints) * 100) \div g.total

\* The page mounts with a mission of n checkpoints: the effect starts
\* loadEnrolledMissionData().
PageMount(n) ==
  /\ ~page.mounted
  /\ page' = [page EXCEPT !.mounted = TRUE, !.total = n, !.op = "mount",
                          !.hasLoadedEnrolledDataRef = TRUE, !.loading = TRUE]
  /\ UNCHANGED <<nonChatVars, limiter, chat, outbound>>

\* getUserEnrolledMissions() settles: with the mission's completed
\* checkpoints ("data"), without them ("none"), or by throwing ("throws").
EnrolledResponse(kind, data) ==
  /\ page.loading
  /\ page' = CASE kind = "data" ->
                    [page EXCEPT !.loading = FALSE, !.op = "enrolled",
                                 !.completedCheckpoints = data]
               [] kind = "none" -> [page EXCEPT !.loading = FALSE, !.op = "enrolled"]
               [] OTHER -> [page EXCEPT !.loading = FALSE, !.op = "enrolled",
                                        !.hasLoadedEnrolledDataRef = FALSE]
  /\ UNCHANGED <<nonChatVars, limiter, chat, outbound>>

\* The hook's socket opens or closes.
PageSocket(open) ==
  /\ page.mounted /\ page.open # open
  /\ page' = [page EXCEPT !.open = open, !.op = "other",
                          !.isTyping = IF open THEN @ ELSE FALSE]
  /\ UNCHANGED <<nonChatVars, limiter, chat, outbound>>

\* agent_processing_start / agent_processing_end
PageTyping(typing) ==
  /\ page.open /\ page.isTyping # typing
  /\ page' = [page EXCEPT !.isTyping = typing, !.op = "other"]
  /\ UNCHANGED <<nonChatVars, limiter, chat, outbound>>

\* A checkpoint_update frame arrives; the hook passes it on when it has
\* completed_checkpoints and a progress, and handleCheckpointUpdate runs.
\* The server's list only grows, and its frames arrive in order.
CheckpointUpdate(completed, progress, hasProgress) ==
  /\ page.open
  /\ page.pushed => /\ Len(page.completed) <= Len(completed)
                    /\ SubSeq(completed, 1, Len(page.completed)) = page.completed
  /\ page' = IF hasProgress
             THEN [page EXCEPT !.completedCheckpoints = completed, !.op = "checkpoint_update",
                               !.pushed = TRUE, !.completed = completed,
                               !.progress = progress]
             ELSE [page EXCEPT !.op = "ignored"]
  /\ UNCHANGED <<nonChatVars, limiter, chat, outbound>>

\* handleWebSocketMessage: the hook passes on an agent_message frame, a
\* historical_messages frame with this list, or a frame of another type.
PageFrame(type, messages) ==
  /\ page.open
  /\ page' = CASE type = "agent_message" ->
                    [page EXCEPT !.op = type, !.chatMessages = Append(@, "agent")]
               [] type = "historical_messages" ->
                    [page EXCEPT !.op = type, !.chatMessages = messages]
               [] OTHER -> [page EXCEPT !.op = "other"]
  /\ UNCHANGED <<nonChatVars, limiter, chat, outbound>>

\* handleSendMessage with this text in the input field; sendWebSocketMessage
\* is the hook's sendMessage, which transmits when the socket is OPEN.
HandleSendMessage(input) ==
  /\ page.mounted
  /\ page' = IF trim(input) # <<>> /\ ~page.isTyping
             THEN [page EXCEPT !.op = "other", !.chatMessages = Append(@, "user")]
             ELSE [page EXCEPT !.op = "other"]
  /\ outbound' = IF trim(input) # <<>> /\ ~page.isTyping /\ page.open
                 THEN Send("ally", input, TRUE, input)
                 ELSE Send("ally", input, FALSE, <<>>)
  /\ UNCHANGED <<nonChatVars, limiter, chat>>

\* Both chats under every input.
NextInput ==
  \/ ChatSession(TRUE)
  \/ \E open \in BOOLEAN : ChatSocket(open)
  \/ Len(limiter.attempts["user_u1"]) < MaxSends /\ \E input \in Inputs : ChatSend(input)
  \/ PageMount(2)
  \/ \E open \in BOOLEAN : PageSocket(open)
  \/ \E typing \in BOOLEAN : PageTyping(typing)
  \/ Len(page.chatMessages) < MaxSends /\ \E input \in Inputs : HandleSendMessage(input)

\* The page's checkpoint state, for missions of 0, 2 and 4 checkpoints and
\* frames with a progress of 0, 25, 50 or 100 percent or without progress.
NextPage ==
  \/ \E n \in {0, 2, 4} : PageMount(n)
  \/ \E kind \in {"data", "none", "throws"}, data \in Snapshots : EnrolledResponse(kind, data)
  \/ \E open \in BOOLEAN : PageSocket(open)
  \/ \E c \in Snapshots, g \in {0, 25, 50, 100}, h \in BOOLEAN : CheckpointUpdate(c, g, h)
  \/ Len(page.chatMessages) < MaxMessages /\
       \E type \in {"agent_message", "historical_messages", "pong"},
          messages \in {<<>>, <<"user", "agent">>} : PageFrame(type, messages)
  \/ Len(page.chatMessages) < MaxMessages /\ HandleSendMessage(<<"a">>)

\* The list of PolarisChat under frames, sends and connection retries.
NextMessages ==
  \/ \E ok \in BOOLEAN : ChatSession(ok)
  \/ \E open \in BOOLEAN : ChatSocket(open)
  \/ ChatSocketError
  \/ Len(chat.messages) < MaxMessages - 1 /\
       \E type \in {"connected", "agent_message", "agent_handover", "mission_created",
                     "error", "invalid", "pong"} : ChatFrame(type)
  \/ Len(chat.messages) < MaxMessages /\ ChatSend(<<"a">>)
  \/ RetryConnection

\* ========================================================= specifications
Init ==
  /\ HookInit
  /\ api = ApiIdle
  /\ authp = AuthUnmounted
  /\ limiter = LimiterInit
  /\ chat = ChatInit
  /\ page = PageInit
  /\ outbound = [path |-> "none", input |-> <<>>, sent |-> FALSE, frame |-> <<>>]

NoHistory == UNCHANGED autoConnects

\* The connection's lifecycle: every operation but the frames, which read the
\* lifecycle state and write only isTyping and the transmitted frame.
Next ==
  \/ NoHistory /\ \E u \in BOOLEAN : Mount(u)
  \/ NoHistory /\ \E m \in Missions, u \in BOOLEAN : MissionChange(m, u)
  \/ NoHistory /\ Unmount
  \/ NoHistory /\ \E u \in BOOLEAN : Reconnect(u)
  \/ NoHistory /\ \E m \in Missions : TokenResolved(m)
  \/ NoHistory /\ \E m \in Missions : TokenRejected(m)
  \/ NoHistory /\ \E s \in SocketIds : WsOpen(s)
  \/ NoHistory /\ \E s \in SocketIds, c \in {NORMAL_CLOSURE, NO_STATUS, ABNORMAL, AUTH_REJECTED} : WsClose(s, c)
  \/ NoHistory /\ \E s \in SocketIds, u \in BOOLEAN : TimerFires(s, u)

Spec == Init /\ [][Next]_vars

\* The lifecycle of a signed-in user, and the frames the server sends.
NextFrames ==
  \/ NoHistory /\ Mount(TRUE)
  \/ NoHistory /\ \E m \in Missions : MissionChange(m, TRUE)
  \/ NoHistory /\ Unmount
  \/ NoHistory /\ Reconnect(TRUE)
  \/ NoHistory /\ \E m \in Missions : TokenResolved(m)
  \/ NoHistory /\ \E m \in Missions : TokenRejected(m)
  \/ NoHistory /\ \E s \in SocketIds : WsOpen(s)
  \/ NoHistory /\ \E s \in SocketIds, c \in {NORMAL_CLOSURE, NO_STATUS, ABNORMAL, AUTH_REJECTED} : WsClose(s, c)
  \/ NoHistory /\ \E s \in SocketIds : TimerFires(s, TRUE)
  \/ NoHistory /\ \E s \in SocketIds,
                      type \in {"agent_processing_start", "agent_processing_end",
                                "agent_message", "pong"} : WsMessage(s, type)

SpecFrames == Init /\ [][NextFrames]_vars

\* The lifecycle of a signed-in user, and sendMessage().
NextSend ==
  \/ NoHistory /\ Mount(TRUE)
  \/ NoHistory /\ \E m \in Missions : MissionChange(m, TRUE)
  \/ NoHistory /\ Unmount
  \/ NoHistory /\ Reconnect(TRUE)
  \/ NoHistory /\ \E m \in Missions : TokenResolved(m)
  \/ NoHistory /\ \E m \in Missions : TokenRejected(m)
  \/ NoHistory /\ \E s \in SocketIds : WsOpen(s)
  \/ NoHistory /\ \E s \in SocketIds, c \in {NORMAL_CLOSURE, NO_STATUS, ABNORMAL, AUTH_REJECTED} : WsClose(s, c)
  \/ NoHistory /\ \E s \in SocketIds : TimerFires(s, TRUE)
  \/ NoHistory /\ \E t \in Texts : SendMessage(t)

SpecSend == Init /\ [][NextSend]_vars

\* The lifecycle of a signed-in user with its history recorded: autoConnects
\* counts the connect() calls made by reconnect timers since the last open
\* event (it stops counting above MAX_RECONNECT_ATTEMPTS).
CountAutoConnect ==
  autoConnects' = IF autoConnects > MAX_RECONNECT_ATTEMPTS THEN autoConnects
                  ELSE autoConnects + 1

NextHistory ==
  \/ NoHistory /\ Mount(TRUE)
  \/ NoHistory /\ \E m \in Missions : MissionChange(m, TRUE)
  \/ NoHistory /\ Unmount
  \/ NoHistory /\ Reconnect(TRUE)
  \/ NoHistory /\ \E m \in Missions : TokenResolved(m)
  \/ NoHistory /\ \E m \in Missions : TokenRejected(m)
  \/ autoConnects' = 0 /\ \E s \in SocketIds : WsOpen(s)
  \/ NoHistory /\ \E s \in SocketIds, c \in {NORMAL_CLOSURE, NO_STATUS, ABNORMAL, AUTH_REJECTED} : WsClose(s, c)
  \/ CountAutoConnect /\ \E s \in SocketIds : TimerFires(s, TRUE)

SpecHistory == Init /\ [][NextHistory]_vars

SpecApi == Init /\ [][NextApi]_vars

\* The AuthProvider with its users, and the provider left to itself.
SpecAuth == Init /\ [][NextAuth]_vars
SpecAuthAuto == Init /\ [][NextAuthAuto]_vars

\* The RateLimiter under calls at non-decreasing times.
SpecLimiter == Init /\ [][NextLimiter]_vars

\* PolarisChat, its sends counted against the rate limit.
SpecRate == Init /\ [][NextRate]_vars

\* PolarisChat and the Mission Ally chat of MissionViewPage under every input.
SpecInput == Init /\ [][NextInput]_vars

\* MissionViewPage: the enrolled-missions request and the checkpoint frames.
SpecPage == Init /\ [][NextPage]_vars

\* PolarisChat: its connection, its retries and its message list.
SpecMessages == Init /\ [][NextMessages]_vars

\* sanitizeInput alone: a string is drawn, and each step passes the last
\* result through sanitizeInput again.
InitSanitize ==
  /\ HookInit
  /\ api = ApiIdle
  /\ authp = AuthUnmounted
  /\ limiter = LimiterInit
  /\ chat = ChatInit
  /\ page = PageInit
  /\ outbound \in {Send("none", i, FALSE, i) : i \in InputsUpTo(MaxSanitize)}

Sanitize ==
  /\ outbound' = Send("sanitizeInput", outbound.frame, FALSE, sanitizeInput(outbound.frame))
  /\ UNCHANGED <<nonChatVars, limiter, chat, page>>

SpecSanitize == InitSanitize /\ [][Sanitize]_vars

\* ================================================================= claims
\* ---- state functions the claims read
LiveSockets == {s \in SocketIds : Live(s)}
OpenSockets == {s \in SocketIds : sockets[s].used /\ sockets[s].readyState = "OPEN"}
\* pending reconnect timers (setTimeout ids not yet fired or cleared)
TimerCount == Cardinality({s \in SocketIds : sockets[s].used /\ sockets[s].timer})
\* running heartbeat intervals
PingCount == Cardinality({s \in SocketIds : sockets[s].used /\ sockets[s].ping})
\* sockets closed by a teardown (effect cleanup or the mission-changed branch
\* of connect()) whose close event has not arrived yet
TornDownCount == Cardinality({s \in SocketIds : sockets[s].used /\ sockets[s].tornDown})
CurrentOpen == wsRef # 0 /\ sockets[wsRef].readyState = "OPEN"

\* C1 (as stated): at most one socket of the hook is CONNECTING or OPEN at any
\* time; a live socket is the hook's current socket (it was not replaced while
\* live); and a socket is constructed only for the current mission id.
C1_SingleLiveSocket ==
  /\ Cardinality(LiveSockets) <= 1
  /\ \A s \in LiveSockets : wsRef = s
  /\ (lastOp.op = "construct" => lastOp.mission = missionId)

\* C2 (as stated): a close event with a code other than 1000 and 1008
\* schedules exactly one reconnect while fewer than 3 automatic connect() calls
\* were made since the last open event; after 3 it schedules nothing and shows
\* the refresh message; at most 3 automatic connect() calls are made between
\* two open events.
C2_BudgetSinceLastOpen ==
  [][ /\ (lastOp'.op = "close" /\ lastOp'.code \notin {NORMAL_CLOSURE, AUTH_REJECTED}) =>
           IF autoConnects < MAX_RECONNECT_ATTEMPTS
           THEN TimerCount' = TimerCount + 1
           ELSE TimerCount' = TimerCount /\ notice' = "connection_lost"
      /\ autoConnects' <= MAX_RECONNECT_ATTEMPTS ]_vars

\* C2 (amended): a close event with a code other than 1000 and 1008 schedules
\* exactly one reconnect and adds one to reconnectAttemptsRef while that
\* counter is below 3; at 3 it schedules nothing and shows the refresh
\* message. The counter is raised only by close events with a code other than
\* 1000, never exceeds 3, and is reset to 0 by an open event and by
\* reconnect(), nothing else.
C2_BudgetSinceLastReset ==
  [][ /\ (lastOp'.op = "close" /\ lastOp'.code \notin {NORMAL_CLOSURE, AUTH_REJECTED}) =>
           IF reconnectAttemptsRef < MAX_RECONNECT_ATTEMPTS
           THEN /\ TimerCount' = TimerCount + 1
                /\ reconnectAttemptsRef' = reconnectAttemptsRef + 1
                /\ notice' = "none"
           ELSE /\ TimerCount' = TimerCount
                /\ reconnectAttemptsRef' = reconnectAttemptsRef
                /\ notice' = "connection_lost"
      /\ reconnectAttemptsRef' > reconnectAttemptsRef =>
           /\ lastOp'.op = "close" /\ lastOp'.code # NORMAL_CLOSURE
           /\ reconnectAttemptsRef' = reconnectAttemptsRef + 1
      /\ reconnectAttemptsRef' < reconnectAttemptsRef =>
           /\ lastOp'.op \in {"open", "reconnect"}
           /\ reconnectAttemptsRef' = 0
      /\ reconnectAttemptsRef' <= MAX_RECONNECT_ATTEMPTS ]_vars

\* A close event with code 1006 arrived with the counter at 3: nothing was
\* scheduled and the refresh message was shown.
C2_Witness ==
  /\ lastOp.op = "close" /\ lastOp.code = ABNORMAL
  /\ reconnectAttemptsRef = MAX_RECONNECT_ATTEMPTS
  /\ notice = "connection_lost"
  /\ TimerCount = 0

\* C3: whatever the counter, a close event with code 1000 schedules no
\* reconnect, and a close event with code 1008 schedules no reconnect and
\* shows a fatal notice in the same handler ('Authentication failed...' below
\* the ceiling, 'Connection lost...' at it).
C3_NoReconnectOnNormalOrAuthClose ==
  [][ lastOp'.op = "close" =>
        /\ lastOp'.code = NORMAL_CLOSURE =>
             /\ TimerCount' = TimerCount
             /\ reconnectAttemptsRef' = reconnectAttemptsRef
        /\ lastOp'.code = AUTH_REJECTED =>
             /\ TimerCount' = TimerCount
             /\ notice' = IF reconnectAttemptsRef < MAX_RECONNECT_ATTEMPTS
                          THEN "auth_failed" ELSE "connection_lost" ]_vars

\* A close event with code 1008 arrived while a reconnect was allowed (counter
\* 2): the notice was shown and no timer is pending.
C3_Witness ==
  /\ lastOp.op = "close" /\ lastOp.code = AUTH_REJECTED
  /\ notice = "auth_failed"
  /\ reconnectAttemptsRef = MAX_RECONNECT_ATTEMPTS
  /\ TimerCount = 0

\* C4 (as stated): an unmount leaves no socket OPEN and no heartbeat running,
\* and the close event of a socket closed by a teardown carries code 1000 and
\* stays out of the reconnect branch (counter unchanged, no timer set).
C4_TeardownClosesNormally ==
  [][ /\ phase' = "unmounted" => (OpenSockets' = {} /\ PingCount' = 0)
      /\ (lastOp'.op = "close" /\ TornDownCount' < TornDownCount) =>
           /\ lastOp'.code = NORMAL_CLOSURE
           /\ reconnectAttemptsRef' = reconnectAttemptsRef
           /\ TimerCount' = TimerCount ]_vars

\* C5 (as stated): a reconnect timer runs connect() only for the mission that
\* is current while the hook is mounted, and a socket is constructed only for
\* it: nothing of a torn-down mission acts after the teardown.
C5_NothingActsAfterTeardown ==
  [][ lastOp'.op \in {"timer", "construct"} =>
        (phase = "mounted" /\ lastOp'.mission = missionId) ]_vars

\* C6 (as stated): per mission at most one socket is live or being connected
\* (a connect() for a mission that has one creates no second), and when a
\* socket is constructed no socket of another mission is still live.
C6_ConnectIsExclusive ==
  /\ \A m \in Missions :
       Cardinality({s \in LiveSockets : sockets[s].mission = m}) + pendingTokens[m] <= 1
  /\ lastOp.op = "construct" => \A s \in LiveSockets : sockets[s].mission = lastOp.mission

\* C7 (as stated): with a signed-in user, reconnect() sets the counter to 0
\* and its connect() is not skipped: a connection attempt for the current
\* mission (the token fetch that precedes the socket) is started.
C7_ReconnectAlwaysConnects ==
  [][ (lastOp'.op = "reconnect" /\ lastOp'.signedIn) =>
        /\ reconnectAttemptsRef' = 0
        /\ pendingTokens'[missionId] = pendingTokens[missionId] + 1 ]_vars

\* C8: sendMessage(text) transmits the text exactly when the current socket is
\* OPEN at the call, and shows 'Not connected' and transmits nothing
\* otherwise; no other step transmits a user_message (nothing is queued).
C8_SendIffOpen ==
  [][ /\ lastOp'.op = "sendMessage" =>
           IF CurrentOpen
           THEN frame' = lastOp'.text /\ notice' = "none"
           ELSE frame' = "none" /\ notice' = "not_connected"
      /\ frame' # "none" => lastOp'.op = "sendMessage" ]_vars

\* sendMessage() was called while the current socket was still CONNECTING:
\* the notice was shown and nothing was transmitted.
C8_Witness ==
  /\ lastOp.op = "sendMessage"
  /\ wsRef # 0 /\ sockets[wsRef].readyState = "CONNECTING"
  /\ notice = "not_connected" /\ frame = "none"

\* C9 (as stated): a request answered with 401 has invoked the expiry
\* callback exactly once when it completes, whatever the body, and has called
\* fetch at most twice (one automatic retry).
C9_OneCallbackPer401 ==
  (api.pc = "done" /\ api.status = 401 /\ api.hasCallback) =>
    (api.expiredCalls = 1 /\ api.fetches <= 2)

\* C10 (as stated): every request completes with data or with an error; the
\* promise never rejects.
C10_NeverRejects ==
  api.pc = "done" => api.result \in {"data", "error"}

\* ------------------------------------------------------------ AuthProvider
\* C11: a profile request that fails with an auth/session-expiry failure (the
\* client calls its session-expired handler) while isInitialLoad is true signs
\* the user out without a warning and without an error page; the same failure
\* after the initial load shows the "expired" warning and signs the user out.
C11_ExpiryWarnsOnlyAfterInitialLoad ==
  [][ (authp'.obs.op = "profileResponse" /\ authp'.obs.calls > 0) =>
        /\ authp'.obs.signOutCalls > 0
        /\ IF authp.isInitialLoad
           THEN authp'.obs.warning = "none" /\ authp'.error = "null"
           ELSE authp'.obs.warning = "expired" ]_vars

\* C12: the provider left to itself (auth-state changes, client re-creation,
\* isInitialLoad changes, effect re-runs, responses in any order) never has
\* two GET /user/profile requests in flight at once.
C12_OneProfileFetchInFlight == authp.fetchesInit + authp.fetchesLater <= 1

\* C13: after every completed signOut(), whether or not the remote logout and
\* the identity provider's sign-out succeeded, user and userProfile are null
\* and isInitialLoad is true.
C13_SignOutClearsIdentity ==
  [][ authp'.obs.op = "signOutDone" =>
        ~authp'.user /\ ~authp'.userProfile /\ authp'.isInitialLoad ]_vars

\* C14: a background session refresh that fails (network failure, 5xx or
\* auth-rejected) only shows the "refresh failed" warning; it does not sign
\* the user out.
C14_RefreshFailureOnlyWarns ==
  [][ (authp'.obs.op = "refreshResponse" /\ ~authp'.obs.ok) =>
        authp'.obs.warning = "refresh_failed" /\ authp'.obs.signOutCalls = 0 ]_vars

\* C15: a profile fetch answered with a status >= 500 sets the error type
\* "500", one answered with a status in 400..499 other than 401 and 403 sets
\* the error type "400"; in both cases, when the body carries no expiry
\* marker, the user is not signed out and the session-expired handler is not
\* called.
C15_StatusClassifiesError ==
  [][ ( /\ authp'.obs.op = "profileResponse"
        /\ ~authp'.obs.marked
        /\ authp'.obs.status >= 400
        /\ authp'.obs.status \notin {401, 403} ) =>
        /\ authp'.error = IF authp'.obs.status >= 500 THEN "500" ELSE "400"
        /\ authp'.obs.calls = 0
        /\ authp'.obs.signOutCalls = 0 ]_vars

\* ------------------------------------------------------------- RateLimiter
\* The allowed calls of a key made less than windowMs before now.
RecentAllowed(l, key, windowMs) ==
  Len(SelectSeq(l.allowed[key], LAMBDA time : l.now - time < windowMs))

\* C16: for fixed maxAttempts and windowMs and calls at non-decreasing times,
\* a call of isAllowed returns true exactly when fewer than maxAttempts
\* earlier allowed calls of its key were made less than windowMs before it;
\* and no window of length windowMs ending now holds more than maxAttempts
\* allowed calls of a key.
C16_AllowedIffWindowNotFull ==
  /\ [][ limiter'.flip # limiter.flip =>
           ( limiter'.result <=>
               RecentAllowed(limiter, limiter'.key, limiter'.windowMs) < limiter'.maxAttempts )
       ]_vars
  /\ [](\A key \in LimiterKeys :
          limiter.maxAttempts > 0 =>
            RecentAllowed(limiter, key, limiter.windowMs) <= limiter.maxAttempts)

\* A key is refused while its window is full and allowed again once windowMs
\* has passed since the first allowed call: here the call after the window.
C16_Witness ==
  /\ limiter.result
  /\ limiter.key \in LimiterKeys
  /\ Len(limiter.allowed[limiter.key]) > limiter.maxAttempts
  /\ limiter.maxAttempts = MaxAttempts
  /\ limiter.allowed[limiter.key][1] + limiter.windowMs = limiter.now

\* -------------------------------------------------------------- chat input
\* C17: a chat send attempted when the same user key has already sent ten
\* messages within the last 60 seconds, and more than the cooldown after the
\* last one, is refused with the "too many messages" notice and sends no frame.
C17_EleventhSendRefused ==
  [][ ( /\ limiter'.flip # limiter.flip
        /\ outbound'.path = "polaris"
        /\ chat.open
        /\ limiter.now - chat.lastMessageTime >= MESSAGE_COOLDOWN_MS
        /\ RecentAllowed(limiter, "user_u1", MINUTE) >= 10 ) =>
        chat'.error = "too_many" /\ ~outbound'.sent ]_vars

\* C18: on both chat paths no user_message frame is sent for an input that
\* validateMessage rejects (empty after sanitizing, longer than 1000
\* characters, or matching the injection denylist).
C18_NoFrameForRejectedInput ==
  outbound.sent => validateMessage(outbound.input) = "ok"

\* --------------------------------------------------------- MissionViewPage
\* C19: after a checkpoint_update frame with completed list C and progress P
\* has been processed, the page's completed list is C and the progress it
\* shows is P, whatever the mission's number of checkpoints.
C19_CheckpointUpdateReplacesState ==
  [][ page'.op = "checkpoint_update" =>
        /\ page'.completedCheckpoints = page'.completed
        /\ getProgressPercentage(page') = page'.progress ]_vars

\* C20: once a checkpoint_update frame has been applied, the completed list
\* is never overwritten by older data: no step replaces it by a list that does
\* not extend it.
C20_LatestSnapshotWins ==
  [][ page.pushed =>
        /\ Len(page.completedCheckpoints) <= Len(page'.completedCheckpoints)
        /\ SubSeq(page'.completedCheckpoints, 1, Len(page.completedCheckpoints))
             = page.completedCheckpoints ]_vars

\* C22: sanitizeInput is idempotent: a string that sanitizeInput returned is
\* returned unchanged when it is passed through sanitizeInput again.
C22_SanitizeIdempotent ==
  outbound.path = "sanitizeInput" => sanitizeInput(outbound.frame) = outbound.frame

\* C29: PolarisChat.sendMessage records a slot of the per-minute rate limit
\* only for a message it sends: a step that adds an attempt to the limiter's
\* history of the user key transmits a frame.
C29_SlotOnlyForSentMessage ==
  [][ Len(limiter'.attempts["user_u1"]) > Len(limiter.attempts["user_u1"]) =>
        outbound'.sent ]_vars

\* C21: the message list of each chat is append-only: every step keeps the
\* messages it held, in order, at the front of the list; the one exception is
\* the replacement of the Mission Ally list by a historical_messages frame.
C21_MessagesAppendOnly ==
  [][ /\ Len(chat.messages) <= Len(chat'.messages)
      /\ SubSeq(chat'.messages, 1, Len(chat.messages)) = chat.messages
      /\ page'.op # "historical_messages" =>
            /\ Len(page.chatMessages) <= Len(page'.chatMessages)
            /\ SubSeq(page'.chatMessages, 1, Len(page.chatMessages)) = page.chatMessages
    ]_vars

\* C28: a retryConnection() that passes its retry-count check and its
\* connection rate-limit check starts a connection attempt: an
\* initializeConnection() that goes on to request a session.
C28_RetryStartsConnection ==
  [][ chat'.retryCount > chat.retryCount => chat'.inits > chat.inits ]_vars

\* C30: MissionViewPage appends a user message to its list only when the
\* user_message frame is transmitted.
C30_AppendOnlyWhenTransmitted ==
  [][ (outbound'.path = "ally" /\ Len(page'.chatMessages) > Len(page.chatMessages)) =>
        outbound'.sent ]_vars

\* ------------------------------------------------------ the hook, continued
\* C23: isTyping is true after an agent_processing_start frame and false
\* after an agent_processing_end frame; any other frame leaves it unchanged;
\* and while the current connection stays open it becomes false only on an
\* agent_processing_end frame.
C23_TypingFollowsFrames ==
  [][ /\ lastOp'.op = "agent_processing_start" => isTyping'
      /\ lastOp'.op = "agent_processing_end" => ~isTyping'
      /\ lastOp'.op \in {"agent_message", "pong"} => isTyping' = isTyping
      /\ (isTyping /\ ~isTyping' /\ CurrentOpen /\ CurrentOpen') =>
            lastOp'.op = "agent_processing_end" ]_vars

\* C24: the heartbeat runs exactly while the current connection is open: the
\* current socket, once open, has a running interval; no interval is still
\* running after the close event of its socket; and the attempt counter is 0
\* after an open event.
C24_HeartbeatWhileOpen ==
  /\ CurrentOpen => sockets[wsRef].ping
  /\ \A s \in SocketIds : (sockets[s].used /\ sockets[s].ping) => sockets[s].readyState # "CLOSED"
  /\ lastOp.op = "open" => reconnectAttemptsRef = 0

\* C25: isConnected is true while the current socket is open, whatever
\* happens to sockets it replaced; and it is true only while some socket has
\* had its open event and not yet its close event.
C25_ConnectedIffCurrentOpen ==
  /\ CurrentOpen => isConnected
  /\ isConnected => \E s \in SocketIds : sockets[s].used /\ sockets[s].opened

\* C26: once a connect() has returned without a token fetch or a handshake
\* left pending, the connecting flag is false.
C26_ConnectingOnlyWhilePending ==
  isConnectingRef =>
    \/ \E m \in Missions : pendingTokens[m] > 0
    \/ \E s \in SocketIds : sockets[s].used /\ sockets[s].readyState = "CONNECTING"

====
